---- MODULE Spec2Model ----
(***************************************************************************)
(* Model of btbricks' connection core: CallbackRegistry, ConnectionContext, *)
(* DiscoveryManager and the UART / LEGO connection managers.               *)
(*                                                                         *)
(* Python's None is the empty tuple <<>>, a present value v is <<v>>, so   *)
(* that "x is None" / "x is not None" are plain comparisons.  A dict is a  *)
(* function whose DOMAIN is the set of its keys, and so is the set of      *)
(* attributes of an object that gets its attributes by assignment.  A call *)
(* that may raise yields the name of the exception in place of its value.  *)
(***************************************************************************)
EXTENDS Integers, Sequences, FiniteSets, TLC

None == <<>>
Some(v) == <<v>>

\* outcomes of a call that returns a bool or raises
True == "True"
False == "False"
AttributeError == "AttributeError"
ModuleNotFoundError == "ModuleNotFoundError"

Bool(b) == IF b THEN True ELSE False

\* outcome of a call that returns a value or None, when it raises e
Raise(e) == <<"raise", e>>

(* ---------------- bounds and value sets of the model ------------------- *)

\* connect(timeout=t) is explored for t in 0..MaxTimeout
MaxTimeout == 2

Timeouts == 0 .. MaxTimeout
\* connection handles an application may pass to a manager
ConnHandles == {0, 1}
\* the handle the application registers callbacks under
LinkHandles == {0}
RxHandles == {12}
TxHandles == {15}
LegoHandles == {14}
Cbs == {"cbA"}
SearchNames == {"robot"}
UART_UUID == "UART_UUID"
LEGO_UUID == "LEGO_UUID"

\* advertisements the radio may deliver while scanning
Advs ==
  { [addr_type |-> 1, addr |-> "010203040506", name |-> "robot", services |-> <<UART_UUID>>],
    [addr_type |-> 1, addr |-> "010203040506", name |-> "other", services |-> <<UART_UUID>>],
    [addr_type |-> 0, addr |-> "AAAAAAAAAAAA", name |-> "Hub42", services |-> <<LEGO_UUID>>],
    [addr_type |-> 0, addr |-> "BBBBBBBBBBBB", name |-> "", services |-> <<LEGO_UUID>>] }

(* ---------------- _connection_context.py ------------------------------- *)
(* The body of class ConnectionContext is its docstring and the STATE_*     *)
(* constants.  __init__, reset, the setters, the predicates and             *)
(* clear_connection are functions of the module, each taking the context as *)
(* self: they can be applied to a context object, and they are not          *)
(* attributes of one.  A context is modelled by its instance attributes.    *)

CONNECTING_NONE == 0
CONNECTING_UART == 1
CONNECTING_LEGO == 2

STATE_IDLE == 0
STATE_CONNECTING == 1
STATE_DISCOVERING == 2
STATE_CONNECTED == 3
STATE_DISCONNECTING == 4

States == {STATE_IDLE, STATE_CONNECTING, STATE_DISCOVERING, STATE_CONNECTED,
           STATE_DISCONNECTING}

\* an object without instance attributes
NoAttrs == [k \in {} |-> None]

\* hasattr(c, a) for an instance attribute a
HasAttr(c, a) == a \in DOMAIN c

\* the assignments self.a = f[a] for every a in DOMAIN f
SetAttrs(c, f) ==
  [a \in DOMAIN c \cup DOMAIN f |-> IF a \in DOMAIN f THEN f[a] ELSE c[a]]

\* ConnectionContext(): the class defines no __init__, construction assigns nothing
ContextInit == NoAttrs

\* the callables an instance gets from class ConnectionContext
ContextMethods == {}

\* looking up c.m on a context: "ok", or the exception the lookup raises
MethodLookup(m) == IF m \in ContextMethods THEN "ok" ELSE AttributeError

\* the module's function __init__ applied to c
context_init(c) ==
  SetAttrs(c, [conn_handle |-> None, addr_type |-> None, addr |-> None,
               start_handle |-> None, end_handle |-> None,
               uart_rx_handle |-> None, uart_tx_handle |-> None,
               lego_value_handle |-> None,
               adv_type |-> None, name |-> None, services |-> None,
               state |-> STATE_IDLE])

reset(c) ==
  SetAttrs(c, [conn_handle |-> None, addr_type |-> None, addr |-> None,
               start_handle |-> None, end_handle |-> None,
               uart_rx_handle |-> None, uart_tx_handle |-> None,
               lego_value_handle |-> None,
               adv_type |-> None, name |-> None, services |-> None,
               state |-> STATE_IDLE])

set_connection_info(c, conn_handle, addr_type, addr) ==
  LET c1 == SetAttrs(c, [conn_handle |-> conn_handle])
      c2 == IF addr_type # None THEN SetAttrs(c1, [addr_type |-> addr_type]) ELSE c1
  IN IF addr # None THEN SetAttrs(c2, [addr |-> addr]) ELSE c2

set_discovery_handles(c, start_handle, end_handle) ==
  SetAttrs(c, [start_handle |-> start_handle, end_handle |-> end_handle])

set_uart_handles(c, rx_handle, tx_handle) ==
  SetAttrs(c, [uart_rx_handle |-> rx_handle, uart_tx_handle |-> tx_handle])

set_lego_handle(c, value_handle) ==
  SetAttrs(c, [lego_value_handle |-> value_handle])

\* "services if services else []": None and the empty list both give []
set_discovery_data(c, adv_type, name, services) ==
  SetAttrs(c, [adv_type |-> adv_type, name |-> name,
               services |-> IF services # None /\ Len(services[1]) > 0
                            THEN services ELSE Some(<<>>)])

\* "a is not None and b is not None": b is read only when a is not None, and
\* reading an attribute that was never assigned raises AttributeError
is_uart_ready(c) ==
  IF ~HasAttr(c, "uart_rx_handle") THEN AttributeError
  ELSE IF c.uart_rx_handle = None THEN False
  ELSE IF ~HasAttr(c, "uart_tx_handle") THEN AttributeError
  ELSE Bool(c.uart_tx_handle # None)

is_lego_ready(c) ==
  IF ~HasAttr(c, "lego_value_handle") THEN AttributeError
  ELSE Bool(c.lego_value_handle # None)

is_connected(c) ==
  IF ~HasAttr(c, "conn_handle") THEN AttributeError
  ELSE IF c.conn_handle = None THEN False
  ELSE IF ~HasAttr(c, "state") THEN AttributeError
  ELSE Bool(c.state = STATE_CONNECTED)

has_discovery_handles(c) ==
  IF ~HasAttr(c, "start_handle") THEN AttributeError
  ELSE IF c.start_handle = None THEN False
  ELSE IF ~HasAttr(c, "end_handle") THEN AttributeError
  ELSE Bool(c.end_handle # None)

clear_connection(c) == SetAttrs(c, [conn_handle |-> None, state |-> STATE_IDLE])

(* ---------------- _discovery_manager.py -------------------------------- *)

DiscoveryInit ==
  [search_name |-> None, search_uuid |-> None, mode |-> CONNECTING_NONE,
   addr_type |-> None, addr |-> None, adv_type |-> None,
   name |-> None, services |-> None,
   scan_result_callback |-> None, scan_done_callback |-> None]

start_uart_discovery(d, name, callback_result, callback_done) ==
  [d EXCEPT !.search_name = Some(name), !.mode = CONNECTING_UART,
            !.addr_type = None, !.addr = None,
            !.scan_result_callback = callback_result,
            !.scan_done_callback = callback_done]

start_lego_discovery(d, callback_result, callback_done) ==
  [d EXCEPT !.mode = CONNECTING_LEGO,
            !.addr_type = None, !.addr = None, !.adv_type = None,
            !.name = None, !.services = None,
            !.scan_result_callback = callback_result,
            !.scan_done_callback = callback_done]

stop_discovery(d) ==
  [d EXCEPT !.mode = CONNECTING_NONE,
            !.scan_result_callback = None, !.scan_done_callback = None]

\* Python's "x in services" on a list
InList(x, s) == \E i \in 1 .. Len(s) : s[i] = x

\* __import__("btbricks.btbricks._connection_context", fromlist=[""]) in
\* on_scan_result: "ok", or the exception it raises.  The modules of src/btbricks
\* reach each other as "._connection_context" and as "btbricks.bt": their package is
\* btbricks, and it holds no subpackage btbricks.
import_connection_context == ModuleNotFoundError

\* "if self.mode == __import__(...).CONNECTING_UART:" with the test nested in it: the
\* import is evaluated first, whatever the mode
uart_matches(d, name, services, uart_uuid) ==
  IF import_connection_context # "ok" THEN import_connection_context
  ELSE Bool(d.mode = CONNECTING_UART /\ Some(name) = d.search_name
              /\ InList(uart_uuid, services))

\* "if self.mode == __import__(...).CONNECTING_LEGO:" with the test nested in it
lego_matches(d, services, lego_uuid) ==
  IF import_connection_context # "ok" THEN import_connection_context
  ELSE Bool(d.mode = CONNECTING_LEGO /\ InList(lego_uuid, services))

\* outcome of on_scan_result: the value of matched it returns, or the exception
on_scan_result_matched(d, addr_type, addr, name, services, uart_uuid, lego_uuid) ==
  LET u == uart_matches(d, name, services, uart_uuid)
      l == lego_matches(d, services, lego_uuid)
  IN IF u \notin {True, False} THEN u
     ELSE IF l \notin {True, False} THEN l
     ELSE Bool(u = True \/ l = True)

on_scan_result_resets_mode(d, addr_type, addr, name, services, uart_uuid, lego_uuid) ==
  [d EXCEPT !.mode = CONNECTING_NONE]

\* discovery state left by on_scan_result, also when it raises
on_scan_result(d, addr_type, addr, name, services, uart_uuid, lego_uuid) ==
  LET u == uart_matches(d, name, services, uart_uuid)
      d1 == IF u = True
            THEN [d EXCEPT !.addr_type = Some(addr_type), !.addr = Some(addr)]
            ELSE d
      l == IF u \in {True, False} THEN lego_matches(d1, services, lego_uuid) ELSE u
  IN IF l = True
     THEN [d1 EXCEPT !.addr_type = Some(addr_type), !.addr = Some(addr),
                     !.adv_type = None, !.name = Some(name),
                     !.services = Some(services)]
     ELSE d1

\* "if self._scan_result_callback: self._scan_result_callback(addr_type, addr, name,
\* services)": the calls on_scan_result makes to the scan-result callback; the
\* statement is reached only when the two tests before it did not raise
on_scan_result_calls(d, addr_type, addr, name, services) ==
  IF on_scan_result_matched(d, addr_type, addr, name, services, UART_UUID, LEGO_UUID)
       \in {True, False}
     /\ d.scan_result_callback # None
  THEN << <<addr_type, addr, name, services>> >>
  ELSE <<>>

on_scan_done_found_in_session(d) ==
  d.mode = CONNECTING_UART \/ d.mode = CONNECTING_LEGO

on_scan_done_found(d) ==
  IF d.mode = CONNECTING_UART \/ d.mode = CONNECTING_LEGO
  THEN d.addr_type # None ELSE FALSE

on_scan_done_info(d) ==
  IF d.mode = CONNECTING_UART
  THEN (IF on_scan_done_found(d) THEN d.search_name ELSE None)
  ELSE IF d.mode = CONNECTING_LEGO
  THEN (IF on_scan_done_found(d) THEN d.name ELSE None)
  ELSE None

\* "if self._scan_done_callback: self._scan_done_callback(found)": the calls
\* on_scan_done makes to the scan-done callback
on_scan_done_calls(d) ==
  IF d.scan_done_callback # None THEN <<on_scan_done_found(d)>> ELSE <<>>

get_discovered_address(d) == <<d.addr_type, d.addr>>

is_discovering(d) == d.mode # CONNECTING_NONE

(* ---------------- _callback_registry.py -------------------------------- *)

NoDict == [k \in {} |-> None]

RegistryInit ==
  [write_callbacks |-> NoDict, write_done_callbacks |-> NoDict,
   notify_callbacks |-> NoDict, disconn_callbacks |-> NoDict,
   central_conn_callback |-> None, central_disconn_callback |-> None,
   scan_result_callback |-> None, scan_done_callback |-> None,
   char_result_callback |-> None]

\* d[key] = value
DictSet(d, key, value) ==
  [k \in DOMAIN d \cup {key} |-> IF k = key THEN value ELSE d[k]]

\* d.pop(key, None)
DictPop(d, key) == [k \in DOMAIN d \ {key} |-> d[k]]

\* d.get(key)
DictGet(d, key) == IF key \in DOMAIN d THEN d[key] ELSE None

reg_on_write(r, value_handle, callback) ==
  [r EXCEPT !.write_callbacks = DictSet(@, value_handle, callback)]

reg_on_write_done(r, conn_handle, callback) ==
  [r EXCEPT !.write_done_callbacks = DictSet(@, conn_handle, callback)]

reg_on_notify(r, conn_handle, callback) ==
  [r EXCEPT !.notify_callbacks = DictSet(@, conn_handle, callback)]

reg_on_disconnect(r, conn_handle, callback) ==
  [r EXCEPT !.disconn_callbacks = DictSet(@, conn_handle, callback)]

reg_on_central_connect(r, callback) == [r EXCEPT !.central_conn_callback = callback]

reg_on_central_disconnect(r, callback) == [r EXCEPT !.central_disconn_callback = callback]

reg_on_scan_result(r, callback) == [r EXCEPT !.scan_result_callback = callback]

reg_on_scan_done(r, callback) == [r EXCEPT !.scan_done_callback = callback]

reg_on_char_result(r, callback) == [r EXCEPT !.char_result_callback = callback]

get_write_callback(r, value_handle) == DictGet(r.write_callbacks, value_handle)

get_write_done_callback(r, conn_handle) == DictGet(r.write_done_callbacks, conn_handle)

get_notify_callback(r, conn_handle) == DictGet(r.notify_callbacks, conn_handle)

get_disconnect_callback(r, conn_handle) == DictGet(r.disconn_callbacks, conn_handle)

reg_clear_connection_keeps_notify(r, conn_handle) ==
  [r EXCEPT !.write_done_callbacks = DictPop(@, conn_handle),
            !.disconn_callbacks = DictPop(@, conn_handle)]

get_central_conn_callback(r) == r.central_conn_callback

get_central_disconn_callback(r) == r.central_disconn_callback

get_scan_result_callback(r) == r.scan_result_callback

get_scan_done_callback(r) == r.scan_done_callback

get_char_result_callback(r) == r.char_result_callback

reg_clear_connection_drops_others(r, conn_handle) ==
  [r EXCEPT !.write_done_callbacks = DictPop(@, conn_handle),
            !.notify_callbacks = NoDict,
            !.disconn_callbacks = DictPop(@, conn_handle),
            !.scan_result_callback = None]

reg_clear_connection_pops_write(r, conn_handle) ==
  [r EXCEPT !.write_callbacks = DictPop(@, conn_handle),
            !.write_done_callbacks = DictPop(@, conn_handle),
            !.notify_callbacks = DictPop(@, conn_handle),
            !.disconn_callbacks = DictPop(@, conn_handle)]

reg_clear_connection(r, conn_handle) ==
  [r EXCEPT !.write_done_callbacks = DictPop(@, conn_handle),
            !.notify_callbacks = DictPop(@, conn_handle),
            !.disconn_callbacks = DictPop(@, conn_handle)]

reg_clear_all(r) == RegistryInit

has_callbacks(r, conn_handle) ==
  \/ conn_handle \in DOMAIN r.write_done_callbacks
  \/ conn_handle \in DOMAIN r.notify_callbacks
  \/ conn_handle \in DOMAIN r.disconn_callbacks


(* ---------------- _uart_manager.py / _lego_manager.py ------------------- *)

\* the tuple UARTConnectionManager.connect returns on failure
AllAbsent == <<None, None, None>>

\* "try: gap_disconnect(conn_handle) except: pass": does the exception leave disconnect()?
gap_disconnect_propagates(raised) == FALSE

\* "if conn_handle is not None:" guarding the whole body of disconnect()
uart_disconnect_always(conn_handle) == TRUE

uart_disconnect_guard(conn_handle) == conn_handle # None

lego_disconnect_guard(conn_handle) == conn_handle # None

\* "if self.ble_handler._connection.name: return name; return None": the name, None,
\* or the exception raised by reading an attribute that was never assigned
get_hub_name(c) ==
  IF ~HasAttr(c, "name") THEN Raise(AttributeError)
  ELSE IF c.name # None /\ c.name[1] # "" THEN c.name
  ELSE None

(* ---------------- state ------------------------------------------------ *)

VARIABLES
  ctx,            \* ble_handler._connection
  disc,           \* ble_handler._discovery
  reg,            \* ble_handler._callbacks
  is_connecting,  \* the is_connecting flag of each manager
  call,           \* the last connect() call
  hist,           \* observation about the discovery session
  lastOp          \* the step taken last

vars == <<ctx, disc, reg, is_connecting, call, hist, lastOp>>

Opt(S) == {None} \cup {Some(v) : v \in S}

\* raised is the exception that left the call, "" when it returned
NoOp(op) ==
  [op |-> op, mgr |-> "none", conn |-> None, teardown |-> FALSE, raised |-> "",
   gap_raised |-> FALSE, dropped |-> FALSE,
   cat |-> "none", cb |-> None, args |-> <<>>, value |-> None]

\* i counts the polling ticks the call made; returned tells whether it returned, and
\* result is what it returned
CallIdle ==
  [mgr |-> "none", timeout |-> 0, i |-> 0, name |-> None,
   on_notify |-> None, on_disconnect |-> None, on_write_done |-> None,
   returned |-> FALSE, result |-> None]

\* what the callers did: last_match is the advertisement that qualified last since the
\* session started (None while none has), rx_seen and tx_seen tell whether a
\* set_uart_handles call supplied rx, tx since reset() was last called
SessionInit == [last_match |-> None, rx_seen |-> FALSE, tx_seen |-> FALSE]

Init ==
  /\ ctx = ContextInit
  /\ disc = DiscoveryInit
  /\ reg = RegistryInit
  /\ is_connecting = [uart |-> FALSE, lego |-> FALSE]
  /\ call = CallIdle
  /\ hist = SessionInit
  /\ lastOp = NoOp("init")

\* an advertisement qualifies in SearchingUart mode when it carries the search name
\* and the UART service, in SearchingHub mode when it carries the hub service
Qualifies(d, a) ==
  LET advertised == {a.services[i] : i \in DOMAIN a.services}
  IN \/ d.mode = CONNECTING_UART /\ d.search_name = Some(a.name)
          /\ UART_UUID \in advertised
     \/ d.mode = CONNECTING_LEGO /\ LEGO_UUID \in advertised

(* ---------------- UARTConnectionManager.connect ------------------------ *)

\* is_connecting = True; start_uart_discovery(name); then _connection.reset() raises
\* AttributeError, which leaves connect(): scan(), the polling loop, the readiness
\* check, the registrations, _negotiate_mtu, stop_discovery() and
\* "is_connecting = False" are not reached
UartConnect(name, cbN, cbD, cbW, t) ==
  /\ is_connecting' = [is_connecting EXCEPT !.uart = TRUE]
  /\ disc' = start_uart_discovery(disc, name, None, None)
  /\ MethodLookup("reset") = AttributeError
  /\ call' = [mgr |-> "uart", timeout |-> t, i |-> 0, name |-> Some(name),
              on_notify |-> cbN, on_disconnect |-> cbD, on_write_done |-> cbW,
              returned |-> FALSE, result |-> None]
  /\ hist' = SessionInit
  /\ lastOp' = [NoOp("connect") EXCEPT !.mgr = "uart",
                                       !.raised = MethodLookup("reset")]
  /\ UNCHANGED <<ctx, reg>>

(* ---------------- LEGOConnectionManager.connect ------------------------ *)

\* is_connecting = True; start_lego_discovery(); then _connection.reset() raises
\* AttributeError, which leaves connect()
LegoConnect(t) ==
  /\ is_connecting' = [is_connecting EXCEPT !.lego = TRUE]
  /\ disc' = start_lego_discovery(disc, None, None)
  /\ MethodLookup("reset") = AttributeError
  /\ call' = [CallIdle EXCEPT !.mgr = "lego", !.timeout = t]
  /\ hist' = SessionInit
  /\ lastOp' = [NoOp("connect") EXCEPT !.mgr = "lego",
                                       !.raised = MethodLookup("reset")]
  /\ UNCHANGED <<ctx, reg>>

(* ---------------- disconnect, on_notify, on_disconnect, on_write_done --- *)

AppFrame == UNCHANGED <<disc, is_connecting, call, hist>>

\* UARTConnectionManager.disconnect(conn); gapRaises: gap_disconnect raises.  With a
\* handle: gap_disconnect under try/except, _callbacks.clear_connection(conn), then
\* _connection.clear_connection() raises AttributeError, which leaves disconnect()
UartDisconnect(conn, gapRaises) ==
  /\ IF uart_disconnect_guard(conn)
     THEN IF gap_disconnect_propagates(gapRaises)
          THEN /\ lastOp' = [NoOp("disconnect") EXCEPT !.mgr = "uart", !.conn = conn,
                                !.teardown = TRUE, !.gap_raised = gapRaises,
                                !.raised = "Exception"]
               /\ UNCHANGED reg
          ELSE /\ reg' = reg_clear_connection(reg, conn)
               /\ MethodLookup("clear_connection") = AttributeError
               /\ lastOp' = [NoOp("disconnect") EXCEPT !.mgr = "uart", !.conn = conn,
                                !.teardown = TRUE, !.gap_raised = gapRaises,
                                !.dropped = has_callbacks(reg, conn),
                                !.raised = MethodLookup("clear_connection")]
     ELSE /\ lastOp' = [NoOp("disconnect") EXCEPT !.mgr = "uart", !.conn = conn]
          /\ UNCHANGED reg
  /\ UNCHANGED ctx
  /\ AppFrame

\* LEGOConnectionManager.disconnect(conn)
LegoDisconnect(conn, gapRaises) ==
  /\ IF lego_disconnect_guard(conn)
     THEN IF gap_disconnect_propagates(gapRaises)
          THEN /\ lastOp' = [NoOp("disconnect") EXCEPT !.mgr = "lego", !.conn = conn,
                                !.teardown = TRUE, !.gap_raised = gapRaises,
                                !.raised = "Exception"]
               /\ UNCHANGED reg
          ELSE /\ reg' = reg_clear_connection(reg, conn)
               /\ MethodLookup("clear_connection") = AttributeError
               /\ lastOp' = [NoOp("disconnect") EXCEPT !.mgr = "lego", !.conn = conn,
                                !.teardown = TRUE, !.gap_raised = gapRaises,
                                !.dropped = has_callbacks(reg, conn),
                                !.raised = MethodLookup("clear_connection")]
     ELSE /\ lastOp' = [NoOp("disconnect") EXCEPT !.mgr = "lego", !.conn = conn]
          /\ UNCHANGED reg
  /\ UNCHANGED ctx
  /\ AppFrame

\* LEGOConnectionManager.get_hub_name()
LegoGetHubName ==
  /\ lastOp' = [NoOp("get_hub_name") EXCEPT
                  !.mgr = "lego",
                  !.raised = IF get_hub_name(ctx) = Raise(AttributeError)
                             THEN AttributeError ELSE "",
                  !.value = IF get_hub_name(ctx) = Raise(AttributeError)
                            THEN None ELSE get_hub_name(ctx)]
  /\ UNCHANGED <<ctx, reg>>
  /\ AppFrame

Registered(mgr, cat, conn, cb) ==
  [NoOp("register") EXCEPT !.mgr = mgr, !.cat = cat, !.conn = conn, !.cb = cb]

UartOnNotify(conn, cb) ==
  /\ reg' = reg_on_notify(reg, conn, cb)
  /\ lastOp' = Registered("uart", "notify", conn, cb)
  /\ AppFrame
  /\ UNCHANGED ctx

UartOnDisconnect(conn, cb) ==
  /\ reg' = reg_on_disconnect(reg, conn, cb)
  /\ lastOp' = Registered("uart", "disconnect", conn, cb)
  /\ AppFrame
  /\ UNCHANGED ctx

UartOnWriteDone(conn, cb) ==
  /\ reg' = reg_on_write_done(reg, conn, cb)
  /\ lastOp' = Registered("uart", "write_done", conn, cb)
  /\ AppFrame
  /\ UNCHANGED ctx

LegoOnNotify(conn, cb) ==
  /\ reg' = reg_on_notify(reg, conn, cb)
  /\ lastOp' = Registered("lego", "notify", conn, cb)
  /\ AppFrame
  /\ UNCHANGED ctx

LegoOnDisconnect(conn, cb) ==
  /\ reg' = reg_on_disconnect(reg, conn, cb)
  /\ lastOp' = Registered("lego", "disconnect", conn, cb)
  /\ AppFrame
  /\ UNCHANGED ctx

(* ---------------- events forwarded by the orchestrator ------------------ *)
(* The BLE handler runs these between the application's calls.             *)

\* an advertisement arrives while a session is active and is handed to
\* on_scan_result, which raises
EvScanResult(a) ==
  /\ is_discovering(disc)
  /\ disc' = on_scan_result(disc, a.addr_type, a.addr, a.name, a.services,
                            UART_UUID, LEGO_UUID)
  /\ hist' = IF Qualifies(disc, a) THEN [hist EXCEPT !.last_match = Some(a)] ELSE hist
  /\ lastOp' = [NoOp("event") EXCEPT
                  !.cat = "on_scan_result",
                  !.raised = IF on_scan_result_matched(disc, a.addr_type, a.addr, a.name,
                                     a.services, UART_UUID, LEGO_UUID) \in {True, False}
                             THEN ""
                             ELSE on_scan_result_matched(disc, a.addr_type, a.addr,
                                     a.name, a.services, UART_UUID, LEGO_UUID)]
  /\ UNCHANGED <<ctx, reg, is_connecting, call>>

\* the attempt is resolved: the mode goes back to CONNECTING_NONE
EvResolved ==
  /\ is_discovering(disc)
  /\ disc' = stop_discovery(disc)
  /\ lastOp' = [NoOp("event") EXCEPT !.cat = "stop_discovery"]
  /\ UNCHANGED <<ctx, reg, is_connecting, call, hist>>

(* ---------------- calls on the ConnectionContext object ----------------- *)
(* The application, the managers and the event handlers of the BLE handler  *)
(* reach the context as ble_handler._connection and call its operations as  *)
(* methods: _connection.reset(), _connection.set_uart_handles(rx, tx), ...  *)
(* The lookup of the method on the object comes first; only a method the    *)
(* class defines runs the function of that name.                            *)

CtxAddrTypes == {1}

CtxAddrs == {"010203040506"}

\* GATT range of the service: (start_handle, end_handle)
CtxRanges == {<<1, 9>>}

\* (adv_type, name, services) handed to set_discovery_data
CtxAdvData ==
  { <<None, Some("Hub42"), Some(<<LEGO_UUID>>)>>,
    <<None, Some("robot"), None>> }

\* the method m is an attribute of the context object
Bound(m) == MethodLookup(m) = "ok"

\* the record of the call _connection.m(args) of an operation that returns nothing
CtxCall(m, args) ==
  [NoOp("context") EXCEPT
     !.cat = m, !.args = args,
     !.raised = IF Bound(m) THEN "" ELSE MethodLookup(m)]

\* the record of the call _connection.m() of a predicate whose function yields outcome
CtxQuery(m, outcome) ==
  [NoOp("context") EXCEPT
     !.cat = m,
     !.raised = IF ~Bound(m) THEN MethodLookup(m)
                ELSE IF outcome \in {True, False} THEN "" ELSE outcome,
     !.value = IF Bound(m) /\ outcome \in {True, False} THEN Some(outcome) ELSE None]

CtxFrame == UNCHANGED <<disc, reg, is_connecting, call>>

\* _connection.reset()
CtxReset ==
  /\ ctx' = IF Bound("reset") THEN reset(ctx) ELSE ctx
  /\ hist' = [hist EXCEPT !.rx_seen = FALSE, !.tx_seen = FALSE]
  /\ lastOp' = CtxCall("reset", <<>>)
  /\ CtxFrame

\* _connection.set_connection_info(conn_handle, addr_type, addr)
CtxSetConnectionInfo(conn_handle, addr_type, addr) ==
  /\ ctx' = IF Bound("set_connection_info")
            THEN set_connection_info(ctx, conn_handle, addr_type, addr) ELSE ctx
  /\ lastOp' = CtxCall("set_connection_info", <<conn_handle, addr_type, addr>>)
  /\ UNCHANGED hist
  /\ CtxFrame

\* _connection.set_discovery_handles(start_handle, end_handle)
CtxSetDiscoveryHandles(start_handle, end_handle) ==
  /\ ctx' = IF Bound("set_discovery_handles")
            THEN set_discovery_handles(ctx, start_handle, end_handle) ELSE ctx
  /\ lastOp' = CtxCall("set_discovery_handles", <<start_handle, end_handle>>)
  /\ UNCHANGED hist
  /\ CtxFrame

\* _connection.set_uart_handles(rx_handle, tx_handle)
CtxSetUartHandles(rx_handle, tx_handle) ==
  /\ ctx' = IF Bound("set_uart_handles")
            THEN set_uart_handles(ctx, rx_handle, tx_handle) ELSE ctx
  /\ hist' = [hist EXCEPT !.rx_seen = @ \/ rx_handle # None,
                          !.tx_seen = @ \/ tx_handle # None]
  /\ lastOp' = CtxCall("set_uart_handles", <<rx_handle, tx_handle>>)
  /\ CtxFrame

\* _connection.set_lego_handle(value_handle)
CtxSetLegoHandle(value_handle) ==
  /\ ctx' = IF Bound("set_lego_handle") THEN set_lego_handle(ctx, value_handle) ELSE ctx
  /\ lastOp' = CtxCall("set_lego_handle", <<value_handle>>)
  /\ UNCHANGED hist
  /\ CtxFrame

\* _connection.set_discovery_data(adv_type, name, services)
CtxSetDiscoveryData(adv_type, name, services) ==
  /\ ctx' = IF Bound("set_discovery_data")
            THEN set_discovery_data(ctx, adv_type, name, services) ELSE ctx
  /\ lastOp' = CtxCall("set_discovery_data", <<adv_type, name, services>>)
  /\ UNCHANGED hist
  /\ CtxFrame

\* _connection.clear_connection()
CtxClearConnection ==
  /\ ctx' = IF Bound("clear_connection") THEN clear_connection(ctx) ELSE ctx
  /\ lastOp' = CtxCall("clear_connection", <<>>)
  /\ UNCHANGED hist
  /\ CtxFrame

\* _connection.is_uart_ready()
CtxIsUartReady ==
  /\ lastOp' = CtxQuery("is_uart_ready",
                        IF Bound("is_uart_ready") THEN is_uart_ready(ctx) ELSE "")
  /\ UNCHANGED <<ctx, hist>>
  /\ CtxFrame

\* _connection.is_lego_ready()
CtxIsLegoReady ==
  /\ lastOp' = CtxQuery("is_lego_ready",
                        IF Bound("is_lego_ready") THEN is_lego_ready(ctx) ELSE "")
  /\ UNCHANGED <<ctx, hist>>
  /\ CtxFrame

\* _connection.is_connected()
CtxIsConnected ==
  /\ lastOp' = CtxQuery("is_connected",
                        IF Bound("is_connected") THEN is_connected(ctx) ELSE "")
  /\ UNCHANGED <<ctx, hist>>
  /\ CtxFrame

\* _connection.has_discovery_handles()
CtxHasDiscoveryHandles ==
  /\ lastOp' = CtxQuery("has_discovery_handles",
                        IF Bound("has_discovery_handles")
                        THEN has_discovery_handles(ctx) ELSE "")
  /\ UNCHANGED <<ctx, hist>>
  /\ CtxFrame

(* ---------------- specifications --------------------------------------- *)

\* callbacks a caller hands to connect(): none, or one for each category
ConnectCbs == {<<None, None, None>>, <<Some("cbA"), Some("cbA"), Some("cbA")>>}

\* connect, the registrations, disconnect and get_hub_name of both managers, with
\* the events of the orchestrator between the calls
Next ==
  \/ \E n \in SearchNames, cbs \in ConnectCbs, t \in Timeouts :
        UartConnect(n, cbs[1], cbs[2], cbs[3], t)
  \/ \E t \in Timeouts : LegoConnect(t)
  \/ \E conn \in Opt(ConnHandles), r \in BOOLEAN : UartDisconnect(conn, r)
  \/ \E conn \in Opt(ConnHandles), r \in BOOLEAN : LegoDisconnect(conn, r)
  \/ LegoGetHubName
  \/ \E conn \in LinkHandles, cb \in Cbs : UartOnNotify(Some(conn), Some(cb))
  \/ \E conn \in LinkHandles, cb \in Cbs : UartOnDisconnect(Some(conn), Some(cb))
  \/ \E conn \in LinkHandles, cb \in Cbs : UartOnWriteDone(Some(conn), Some(cb))
  \/ \E conn \in LinkHandles, cb \in Cbs : LegoOnNotify(Some(conn), Some(cb))
  \/ \E conn \in LinkHandles, cb \in Cbs : LegoOnDisconnect(Some(conn), Some(cb))
  \/ \E a \in Advs : EvScanResult(a)
  \/ CtxReset
  \/ \E h \in ConnHandles, at \in Opt(CtxAddrTypes), a \in Opt(CtxAddrs) :
        CtxSetConnectionInfo(Some(h), at, a)
  \/ \E r \in CtxRanges : CtxSetDiscoveryHandles(Some(r[1]), Some(r[2]))
  \/ \E rx \in Opt(RxHandles), tx \in Opt(TxHandles) : CtxSetUartHandles(rx, tx)
  \/ \E vh \in LegoHandles : CtxSetLegoHandle(Some(vh))
  \/ \E d \in CtxAdvData : CtxSetDiscoveryData(d[1], d[2], d[3])
  \/ CtxClearConnection
  \/ CtxIsUartReady
  \/ CtxIsLegoReady
  \/ CtxIsConnected
  \/ CtxHasDiscoveryHandles
  \/ EvResolved

Spec == Init /\ [][Next]_vars

(* ---------------- CallbackRegistry on its own --------------------------- *)

\* attribute handles write callbacks are registered under; 0 is also a
\* connection handle
RegValueHandles == {0, 12}

RegCbs == {"cbA", "cbB"}

\* the registry call just made: key is its handle argument, had is
\* has_callbacks(key) before the call
RegOp(op, key, cb, had) == [op |-> op, key |-> key, cb |-> cb, had |-> had]

RegFrame == UNCHANGED <<ctx, disc, is_connecting, call, hist>>

RegOnWrite(value_handle, cb) ==
  /\ reg' = reg_on_write(reg, value_handle, cb)
  /\ lastOp' = RegOp("reg_on_write", value_handle, cb, FALSE)
  /\ RegFrame

RegOnWriteDone(conn, cb) ==
  /\ reg' = reg_on_write_done(reg, conn, cb)
  /\ lastOp' = RegOp("reg_on_write_done", conn, cb, has_callbacks(reg, conn))
  /\ RegFrame

RegOnNotify(conn, cb) ==
  /\ reg' = reg_on_notify(reg, conn, cb)
  /\ lastOp' = RegOp("reg_on_notify", conn, cb, has_callbacks(reg, conn))
  /\ RegFrame

RegOnDisconnect(conn, cb) ==
  /\ reg' = reg_on_disconnect(reg, conn, cb)
  /\ lastOp' = RegOp("reg_on_disconnect", conn, cb, has_callbacks(reg, conn))
  /\ RegFrame

RegOnCentralConnect(cb) ==
  /\ reg' = reg_on_central_connect(reg, cb)
  /\ lastOp' = RegOp("reg_on_central_connect", None, cb, FALSE)
  /\ RegFrame

RegOnCentralDisconnect(cb) ==
  /\ reg' = reg_on_central_disconnect(reg, cb)
  /\ lastOp' = RegOp("reg_on_central_disconnect", None, cb, FALSE)
  /\ RegFrame

RegOnScanResult(cb) ==
  /\ reg' = reg_on_scan_result(reg, cb)
  /\ lastOp' = RegOp("reg_on_scan_result", None, cb, FALSE)
  /\ RegFrame

RegOnScanDone(cb) ==
  /\ reg' = reg_on_scan_done(reg, cb)
  /\ lastOp' = RegOp("reg_on_scan_done", None, cb, FALSE)
  /\ RegFrame

RegOnCharResult(cb) ==
  /\ reg' = reg_on_char_result(reg, cb)
  /\ lastOp' = RegOp("reg_on_char_result", None, cb, FALSE)
  /\ RegFrame

RegClearConnection(conn) ==
  /\ reg' = reg_clear_connection(reg, conn)
  /\ lastOp' = RegOp("reg_clear_connection", conn, None, has_callbacks(reg, conn))
  /\ RegFrame

RegClearAll ==
  /\ reg' = reg_clear_all(reg)
  /\ lastOp' = RegOp("reg_clear_all", None, None, FALSE)
  /\ RegFrame

\* every sequence of registry calls
NextReg ==
  \/ \E vh \in RegValueHandles, cb \in RegCbs : RegOnWrite(Some(vh), Some(cb))
  \/ \E conn \in ConnHandles, cb \in Cbs : RegOnWriteDone(Some(conn), Some(cb))
  \/ \E conn \in ConnHandles, cb \in Cbs : RegOnNotify(Some(conn), Some(cb))
  \/ \E conn \in ConnHandles, cb \in Cbs : RegOnDisconnect(Some(conn), Some(cb))
  \/ \E cb \in Cbs : RegOnCentralConnect(Some(cb))
  \/ \E cb \in Cbs : RegOnCentralDisconnect(Some(cb))
  \/ \E cb \in Cbs : RegOnScanResult(Some(cb))
  \/ \E cb \in Cbs : RegOnScanDone(Some(cb))
  \/ \E cb \in Cbs : RegOnCharResult(Some(cb))
  \/ \E conn \in ConnHandles : RegClearConnection(Some(conn))
  \/ RegClearAll

SpecReg == Init /\ [][NextReg]_vars

(* ---------------- DiscoveryManager on its own --------------------------- *)

DiscSearchNames == {"robot", "other"}

\* advertisements handed to on_scan_result, each from its own address
DiscAdvs ==
  { [addr_type |-> 1, addr |-> "010203040506", name |-> "robot", services |-> <<UART_UUID>>],
    [addr_type |-> 1, addr |-> "0A0A0A0A0A0A", name |-> "other", services |-> <<UART_UUID>>],
    [addr_type |-> 0, addr |-> "0B0B0B0B0B0B", name |-> "robot", services |-> <<>>],
    [addr_type |-> 1, addr |-> "0C0C0C0C0C0C", name |-> "robot",
     services |-> <<LEGO_UUID, UART_UUID>>],
    [addr_type |-> 0, addr |-> "AAAAAAAAAAAA", name |-> "Hub42", services |-> <<LEGO_UUID>>],
    [addr_type |-> 0, addr |-> "BBBBBBBBBBBB", name |-> "", services |-> <<LEGO_UUID>>] }

\* the discovery call just made: adv is the advertisement given to on_scan_result,
\* matched the outcome of on_scan_result (the bool it returned or the exception it
\* raised), found and info the pair on_scan_done returned, calls the calls made to
\* the installed callback, had_match whether an address was recorded before the call,
\* value what get_discovered_address / is_discovering returned
DiscOp(op, d) ==
  [op |-> op, adv |-> None, matched |-> "", found |-> FALSE, info |-> None,
   calls |-> <<>>, had_match |-> d.addr_type # None, value |-> None]

DiscFrame == UNCHANGED <<ctx, reg, is_connecting, call>>

DiscStartUart(name, callback_result, callback_done) ==
  /\ disc' = start_uart_discovery(disc, name, callback_result, callback_done)
  /\ hist' = SessionInit
  /\ lastOp' = DiscOp("start_uart_discovery", disc)
  /\ DiscFrame

DiscStartLego(callback_result, callback_done) ==
  /\ disc' = start_lego_discovery(disc, callback_result, callback_done)
  /\ hist' = SessionInit
  /\ lastOp' = DiscOp("start_lego_discovery", disc)
  /\ DiscFrame

DiscStop ==
  /\ disc' = stop_discovery(disc)
  /\ lastOp' = DiscOp("stop_discovery", disc)
  /\ UNCHANGED hist
  /\ DiscFrame

DiscOnScanResult(a) ==
  /\ disc' = on_scan_result(disc, a.addr_type, a.addr, a.name, a.services,
                            UART_UUID, LEGO_UUID)
  /\ hist' = IF Qualifies(disc, a) THEN [hist EXCEPT !.last_match = Some(a)] ELSE hist
  /\ lastOp' = [DiscOp("on_scan_result", disc) EXCEPT
                  !.adv = Some(a),
                  !.matched = on_scan_result_matched(disc, a.addr_type, a.addr, a.name,
                                                     a.services, UART_UUID, LEGO_UUID),
                  !.calls = on_scan_result_calls(disc, a.addr_type, a.addr, a.name,
                                                 a.services)]
  /\ DiscFrame

DiscOnScanDone ==
  /\ lastOp' = [DiscOp("on_scan_done", disc) EXCEPT
                  !.found = on_scan_done_found(disc),
                  !.info = on_scan_done_info(disc),
                  !.calls = on_scan_done_calls(disc)]
  /\ UNCHANGED <<disc, hist>>
  /\ DiscFrame

DiscGetDiscoveredAddress ==
  /\ lastOp' = [DiscOp("get_discovered_address", disc) EXCEPT
                  !.value = get_discovered_address(disc)]
  /\ UNCHANGED <<disc, hist>>
  /\ DiscFrame

DiscIsDiscovering ==
  /\ lastOp' = [DiscOp("is_discovering", disc) EXCEPT !.value = is_discovering(disc)]
  /\ UNCHANGED <<disc, hist>>
  /\ DiscFrame

\* every sequence of discovery calls
NextDisc ==
  \/ \E n \in DiscSearchNames, cr \in Opt(Cbs), cd \in Opt(Cbs) : DiscStartUart(n, cr, cd)
  \/ \E cr \in Opt(Cbs), cd \in Opt(Cbs) : DiscStartLego(cr, cd)
  \/ DiscStop
  \/ \E a \in DiscAdvs : DiscOnScanResult(a)
  \/ DiscOnScanDone
  \/ DiscGetDiscoveredAddress
  \/ DiscIsDiscovering

SpecDisc == Init /\ [][NextDisc]_vars

(* ---------------- properties -------------------------------------------- *)

\* the connect() call recorded in call has just ended, by returning or by raising
AtConnectEnd == lastOp.op = "connect"

UartEnded == AtConnectEnd /\ lastOp.mgr = "uart"

LegoEnded == AtConnectEnd /\ lastOp.mgr = "lego"

\* the result is the not-connected sentinel of the manager that returned it
ResultAbsent == IF call.mgr = "uart" THEN call.result = AllAbsent ELSE call.result = None

\* getattr(c, a) for an attribute that holds None or a value
Attr(c, a) == IF HasAttr(c, a) THEN c[a] ELSE Raise(AttributeError)

\* c.state is assigned and equals s
StateIs(c, s) == HasAttr(c, "state") /\ c.state = s

\* attribute a is the same in c1 and c2: unassigned in both, or the same value
SameAttr(c1, c2, a) ==
  /\ HasAttr(c1, a) <=> HasAttr(c2, a)
  /\ HasAttr(c1, a) => c1[a] = c2[a]

\* C1 (as claimed): UART connect() returns three non-absent handles or
\* (None, None, None), never a mixture, and hub connect() returns a connection
\* handle or None.
C1_AllOrNothing ==
  /\ UartEnded =>
       /\ call.returned
       /\ \/ call.result = AllAbsent
          \/ call.result[1] # None /\ call.result[2] # None /\ call.result[3] # None
  /\ LegoEnded => call.returned /\ call.result \in Opt(ConnHandles)

\* C2 (as claimed): a connect(timeout=t) during which no event arrives makes exactly
\* t ticks, returns the all-absent result and leaves the mode CONNECTING_NONE.
C2_QuietTimeout ==
  AtConnectEnd =>
    /\ call.returned /\ ResultAbsent
    /\ call.i = call.timeout
    /\ disc.mode = CONNECTING_NONE

\* C3 (as claimed): when connect() has ended the mode is CONNECTING_NONE, both scan
\* callbacks of the DiscoveryManager are None and the manager's is_connecting is
\* False.
C3_StoppedAtReturn ==
  AtConnectEnd =>
    /\ disc.mode = CONNECTING_NONE
    /\ disc.scan_result_callback = None /\ disc.scan_done_callback = None
    /\ ~is_connecting[lastOp.mgr]

\* the readiness predicate connect() of the manager consults
Ready(c, mgr) == IF mgr = "uart" THEN is_uart_ready(c) ELSE is_lego_ready(c)

\* C4 (as claimed): connect() returns, and its result is non-absent exactly when the
\* readiness predicate of the context holds.
C4_ReadinessDecides ==
  AtConnectEnd =>
    /\ call.returned
    /\ ~ResultAbsent <=> Ready(ctx, lastOp.mgr) = True

\* C5 (as claimed): the loop makes at most timeout ticks, and a call that made fewer
\* ticks than timeout stopped at a tick whose check found the mode CONNECTING_NONE.
C5_LoopBound ==
  /\ call.i <= call.timeout
  /\ AtConnectEnd /\ call.i < call.timeout => call.i >= 1 /\ ~is_discovering(disc)

\* C6 (as claimed): connect() wipes the whole context before scanning starts, and a
\* call during which no event arrives returns the all-absent result.
C6_NoStaleState ==
  AtConnectEnd =>
    /\ ctx = context_init(ContextInit)
    /\ call.returned /\ ResultAbsent

Cats == {"notify", "disconnect", "write_done"}

GetCb(r, cat, conn) ==
  IF cat = "notify" THEN get_notify_callback(r, conn)
  ELSE IF cat = "disconnect" THEN get_disconnect_callback(r, conn)
  ELSE get_write_done_callback(r, conn)

\* the callback connect() was given for a category
GivenCb(c, cat) ==
  IF cat = "notify" THEN c.on_notify
  ELSE IF cat = "disconnect" THEN c.on_disconnect
  ELSE c.on_write_done

\* this step is an on_* call that registers cb for (cat, conn)
RegistersNow(cat, conn, cb) ==
  lastOp'.op = "register" /\ lastOp'.cat = cat /\ lastOp'.conn = conn /\ lastOp'.cb = cb

\* C7: disconnect(h) leaves no notify, disconnect or write-done callback for h, and a
\* callback is returned for h later only if a later on_* call registered it: a
\* connect() that is given no callbacks, or any other step, brings none back.
C7_NoCallbackLeak ==
  [][\A h \in ConnHandles, cat \in Cats :
       /\ lastOp'.op = "disconnect" /\ lastOp'.conn = Some(h) =>
            GetCb(reg', cat, Some(h)) = None
       /\ GetCb(reg', cat, Some(h)) # None
            /\ GetCb(reg', cat, Some(h)) # GetCb(reg, cat, Some(h)) =>
            RegistersNow(cat, Some(h), GetCb(reg', cat, Some(h)))]_vars

C7_Witness ==
  /\ lastOp.op = "disconnect" /\ lastOp.conn = Some(0) /\ lastOp.dropped
  /\ call.mgr = "uart" /\ call.on_notify = None
  /\ \A cat \in Cats : GetCb(reg, cat, Some(0)) = None

\* C8 (as claimed): disconnect(conn) with a connection handle completes without
\* raising whether or not the teardown request raised, and leaves no callback for
\* conn, no connection handle in the context and the state Idle.
C8_DisconnectCleans ==
  lastOp.op = "disconnect" /\ lastOp.conn # None =>
    /\ lastOp.teardown /\ lastOp.raised = ""
    /\ ~has_callbacks(reg, lastOp.conn)
    /\ Attr(ctx, "conn_handle") = None /\ StateIs(ctx, STATE_IDLE)

\* C9 (as claimed): disconnect(None) requests no teardown and still narrows the
\* context: connection handle None, state Idle.
C9_AbsentStillCleans ==
  lastOp.op = "disconnect" /\ lastOp.conn = None =>
    /\ ~lastOp.teardown
    /\ Attr(ctx, "conn_handle") = None /\ StateIs(ctx, STATE_IDLE)

\* C9 (amended): disconnect(None) requests no teardown and does nothing else either:
\* it returns, and the context and the registry are left as they were.
C9_AbsentIsNoOp ==
  [][lastOp'.op = "disconnect" /\ lastOp'.conn = None =>
       ~lastOp'.teardown /\ lastOp'.raised = "" /\ ctx' = ctx /\ reg' = reg]_vars

C9_Witness ==
  /\ lastOp.op = "disconnect" /\ lastOp.conn = None /\ lastOp.raised = ""
  /\ \A cat \in Cats : GetCb(reg, cat, Some(0)) = Some("cbA")
  /\ ~HasAttr(ctx, "conn_handle")

\* C10 (as claimed): get_hub_name() returns the discovered name, or None when there
\* is none, also when it is called after disconnect().
C10_NamePreserved ==
  lastOp.op = "get_hub_name" => lastOp.raised = "" /\ lastOp.value \in Opt({"Hub42", ""})

\* C11: after CallbackRegistry.clear_connection(h), has_callbacks(h) is false and the
\* write callbacks, which are keyed by value handle, are all still there with the same
\* handlers, also the one whose value handle equals h.
C11_ClearKeepsWrites ==
  [][lastOp'.op = "reg_clear_connection" =>
       /\ ~has_callbacks(reg', lastOp'.key)
       /\ reg'.write_callbacks = reg.write_callbacks
       /\ \A vh \in RegValueHandles :
            get_write_callback(reg', Some(vh)) = get_write_callback(reg, Some(vh))]_vars

C11_Witness ==
  /\ lastOp.op = "reg_clear_connection" /\ lastOp.key = Some(0) /\ lastOp.had
  /\ ~has_callbacks(reg, Some(0))
  /\ get_write_callback(reg, Some(0)) = Some("cbB")
  /\ get_write_callback(reg, Some(12)) = Some("cbA")

\* this step is the call _connection.m(...) on the context object
CtxCalled(m) == lastOp.op = "context" /\ lastOp.cat = m

\* C12 (as claimed): is_uart_ready() returns false until set_uart_handles calls have
\* supplied both rx and tx at least once since reset() was last called, and true from
\* then on, whatever other operation is called, until reset() is called.
C12_ReadyUntilReset ==
  CtxCalled("is_uart_ready") =>
    /\ lastOp.raised = ""
    /\ lastOp.value = Some(Bool(hist.rx_seen /\ hist.tx_seen))

\* the attributes of a context
Fields ==
  {"conn_handle", "addr_type", "addr", "start_handle", "end_handle", "uart_rx_handle",
   "uart_tx_handle", "lego_value_handle", "adv_type", "name", "services", "state"}

\* C13 (as claimed): set_connection_info(conn, addr_type, addr) returns with the
\* connection handle set to conn, the address type replaced only when addr_type is
\* given and the address only when addr is given, and nothing else changed.
C13_PartialUpdate ==
  [][lastOp'.op = "context" /\ lastOp'.cat = "set_connection_info" =>
       /\ lastOp'.raised = ""
       /\ Attr(ctx', "conn_handle") = lastOp'.args[1]
       /\ IF lastOp'.args[2] = None THEN SameAttr(ctx', ctx, "addr_type")
          ELSE Attr(ctx', "addr_type") = lastOp'.args[2]
       /\ IF lastOp'.args[3] = None THEN SameAttr(ctx', ctx, "addr")
          ELSE Attr(ctx', "addr") = lastOp'.args[3]
       /\ \A a \in Fields \ {"conn_handle", "addr_type", "addr"} :
            SameAttr(ctx', ctx, a)]_vars

\* C19 (as claimed): in every reachable state of the context, state == Connected
\* implies that the connection handle is set, and is_connected() returns true
\* exactly when the handle is set and state == Connected.
C19_ConnectedHasHandle ==
  /\ StateIs(ctx, STATE_CONNECTED) =>
       HasAttr(ctx, "conn_handle") /\ ctx.conn_handle # None
  /\ CtxCalled("is_connected") =>
       /\ lastOp.raised = ""
       /\ lastOp.value = Some(Bool(/\ HasAttr(ctx, "conn_handle")
                                   /\ ctx.conn_handle # None
                                   /\ StateIs(ctx, STATE_CONNECTED)))

\* the address pair of an advertisement as get_discovered_address() reports it
AddrOf(a) == <<Some(a.addr_type), Some(a.addr)>>

\* C14 (as claimed): in SearchingUart mode on_scan_result returns true exactly when
\* the advertised name is the search name and the UART service is advertised; on a
\* match get_discovered_address() is the advertisement's (addr_type, addr), and while
\* no advertisement of the session has matched it is (None, None).
C14_UartMatch ==
  /\ lastOp.op = "on_scan_result" /\ disc.mode = CONNECTING_UART =>
       LET a == lastOp.adv[1]
       IN /\ lastOp.matched =
               Bool(disc.search_name = Some(a.name) /\ InList(UART_UUID, a.services))
          /\ lastOp.matched = True => get_discovered_address(disc) = AddrOf(a)
  /\ disc.mode = CONNECTING_UART /\ hist.last_match = None =>
       get_discovered_address(disc) = <<None, None>>

\* C15 (as claimed): in SearchingHub mode on_scan_result returns true exactly when
\* the hub service is advertised, whatever the advertised name and whatever search
\* name an earlier UART session left; on a match the advertisement's address type,
\* address, name and services are stored.
C15_HubMatch ==
  lastOp.op = "on_scan_result" /\ disc.mode = CONNECTING_LEGO =>
    LET a == lastOp.adv[1]
    IN /\ lastOp.matched = Bool(InList(LEGO_UUID, a.services))
       /\ lastOp.matched = True =>
            /\ get_discovered_address(disc) = AddrOf(a)
            /\ disc.name = Some(a.name)
            /\ disc.services = Some(a.services)

\* C16: during a session on_scan_done() returns found = true exactly when a match
\* address is recorded, which takes an advertisement that qualified since the session
\* started; info is the search name (UART) or the recorded name (hub) when found and
\* None otherwise; the scan-done callback, when installed, is called once, with
\* found.  With no session active found is false, info None.
C16_ScanDone ==
  lastOp.op = "on_scan_done" =>
    /\ is_discovering(disc) =>
         /\ lastOp.found <=> get_discovered_address(disc)[1] # None
         /\ lastOp.found => hist.last_match # None
         /\ lastOp.info = IF ~lastOp.found THEN None
                          ELSE IF disc.mode = CONNECTING_UART THEN disc.search_name
                          ELSE disc.name
    /\ ~is_discovering(disc) => ~lastOp.found /\ lastOp.info = None
    /\ lastOp.calls = IF disc.scan_done_callback # None THEN <<lastOp.found>>
                      ELSE <<>>

C16_Witness ==
  /\ lastOp.op = "on_scan_done" /\ disc.mode = CONNECTING_UART
  /\ disc.scan_done_callback = Some("cbA")
  /\ ~lastOp.found /\ lastOp.info = None /\ lastOp.calls = <<FALSE>>

\* C20: while a session is active a recorded address takes an advertisement that
\* qualified since the session started, and is the address of the one that qualified
\* last; right after start_uart_discovery and start_lego_discovery
\* get_discovered_address() is (None, None).  No reachable state records an address,
\* so the first half is never put to the test and no start_* call finds one to clear.
C20_MatchWithinSession ==
  /\ is_discovering(disc) /\ get_discovered_address(disc) # <<None, None>> =>
       /\ hist.last_match # None
       /\ get_discovered_address(disc) = AddrOf(hist.last_match[1])
  /\ lastOp.op \in {"start_uart_discovery", "start_lego_discovery"} =>
       get_discovered_address(disc) = <<None, None>>

\* C17 (as claimed): UART connect() returns, and when it returns a connection handle
\* every callback it was given is what get_*_callback(returned handle) yields.
C17_RegisteredUnderReturned ==
  UartEnded =>
    /\ call.returned
    /\ call.result[1] # None =>
         \A cat \in Cats :
           GivenCb(call, cat) # None =>
             GetCb(reg, cat, call.result[1]) = GivenCb(call, cat)

\* C18 (as claimed): no failure inside UART connect() surfaces to the caller: the
\* call returns its result with discovery stopped and the connecting flag cleared.
C18_MtuBestEffort ==
  UartEnded =>
    /\ lastOp.raised = "" /\ call.returned
    /\ ~is_discovering(disc) /\ ~is_connecting.uart

\* C21 (as claimed): reset() returns and leaves every field of the context at its
\* initial unset value, state Idle; clear_connection() returns and sets the
\* connection handle to None and the state to Idle, leaving address type, address,
\* discovery range, UART handles, hub handle, advertisement type, name and services
\* as they were.
C21_ResetWideClearNarrow ==
  [][/\ lastOp'.op = "context" /\ lastOp'.cat = "reset" =>
          lastOp'.raised = "" /\ ctx' = context_init(ContextInit)
     /\ lastOp'.op = "context" /\ lastOp'.cat = "clear_connection" =>
          /\ lastOp'.raised = ""
          /\ Attr(ctx', "conn_handle") = None /\ StateIs(ctx', STATE_IDLE)
          /\ \A a \in Fields \ {"conn_handle", "state"} : SameAttr(ctx', ctx, a)]_vars

DiscStarts == {"start_uart_discovery", "start_lego_discovery"}

\* C22: the mode is always one of CONNECTING_NONE, CONNECTING_UART, CONNECTING_LEGO
\* and only start_uart_discovery, start_lego_discovery and stop_discovery change it:
\* on_scan_result, whatever advertisement it is given, on_scan_done,
\* get_discovered_address and is_discovering leave it as it was.
C22_ModeOnlyByStartStop ==
  [][/\ disc'.mode \in {CONNECTING_NONE, CONNECTING_UART, CONNECTING_LEGO}
     /\ disc'.mode # disc.mode => lastOp'.op \in DiscStarts \cup {"stop_discovery"}
     /\ lastOp'.op = "start_uart_discovery" => disc'.mode = CONNECTING_UART
     /\ lastOp'.op = "start_lego_discovery" => disc'.mode = CONNECTING_LEGO
     /\ lastOp'.op = "stop_discovery" => disc'.mode = CONNECTING_NONE
     /\ lastOp'.op \in {"get_discovered_address", "is_discovering"} => disc' = disc]_vars

C22_Witness ==
  /\ lastOp.op = "on_scan_result" /\ hist.last_match = lastOp.adv
  /\ lastOp.adv[1].addr = "AAAAAAAAAAAA"
  /\ disc.mode = CONNECTING_LEGO

\* what a match records
RecordedMatch(d) == <<d.addr_type, d.addr, d.adv_type, d.name, d.services>>

\* C23: the recorded match changes only in an on_scan_result that returns true or a
\* start_*_discovery call; stop_discovery() sets the mode to CONNECTING_NONE and both
\* scan callbacks to None and get_discovered_address() returns the same pair after
\* it as before.  No reachable state holds a recorded match, so what is preserved is
\* always the pair (None, None).
C23_MatchSurvivesStop ==
  [][/\ RecordedMatch(disc') # RecordedMatch(disc) =>
          \/ lastOp'.op = "on_scan_result" /\ lastOp'.matched = True
          \/ lastOp'.op \in DiscStarts
     /\ lastOp'.op = "stop_discovery" =>
          /\ disc'.mode = CONNECTING_NONE
          /\ disc'.scan_result_callback = None /\ disc'.scan_done_callback = None
          /\ get_discovered_address(disc') = get_discovered_address(disc)]_vars

\* C24 (as claimed): on_scan_result calls an installed scan-result callback once,
\* with the advertisement as it was given (addr_type, addr, name, services), whether
\* or not the advertisement matched, and calls nothing when none is installed; the
\* value it returns is whether the advertisement qualified.
C24_CallbackSeesAll ==
  lastOp.op = "on_scan_result" =>
    LET a == lastOp.adv[1]
    IN /\ lastOp.calls = IF disc.scan_result_callback # None
                         THEN << <<a.addr_type, a.addr, a.name, a.services>> >>
                         ELSE <<>>
       /\ lastOp.matched = Bool(Qualifies(disc, a))

\* C26 (as claimed): while the mode is CONNECTING_NONE no scan callback is installed,
\* and an advertisement given to on_scan_result returns False, changes nothing of
\* the discovery state (recorded address, name and services included) and calls no
\* callback.
C26_LateResultIgnored ==
  [][/\ disc'.mode = CONNECTING_NONE =>
          disc'.scan_result_callback = None /\ disc'.scan_done_callback = None
     /\ lastOp'.op = "on_scan_result" /\ disc.mode = CONNECTING_NONE =>
          lastOp'.matched = False /\ disc' = disc /\ lastOp'.calls = <<>>]_vars

\* the five singleton callbacks of the registry
Singletons(r) ==
  <<get_central_conn_callback(r), get_central_disconn_callback(r),
    get_scan_result_callback(r), get_scan_done_callback(r),
    get_char_result_callback(r)>>

\* C25: clear_connection(h) removes the write-done, notify and disconnect entries of
\* h and nothing else: for every other connection handle the three entries are what
\* they were and has_callbacks keeps its value, and the five singleton callbacks and
\* the write callbacks are unchanged.
C25_ClearOnlyThatConnection ==
  [][lastOp'.op = "reg_clear_connection" =>
       /\ \A cat \in Cats : GetCb(reg', cat, lastOp'.key) = None
       /\ ~has_callbacks(reg', lastOp'.key)
       /\ \A h2 \in ConnHandles : Some(h2) # lastOp'.key =>
            /\ \A cat \in Cats : GetCb(reg', cat, Some(h2)) = GetCb(reg, cat, Some(h2))
            /\ has_callbacks(reg', Some(h2)) = has_callbacks(reg, Some(h2))
       /\ Singletons(reg') = Singletons(reg)
       /\ reg'.write_callbacks = reg.write_callbacks]_vars

C25_Witness ==
  /\ lastOp.op = "reg_clear_connection" /\ lastOp.key = Some(0) /\ lastOp.had
  /\ ~has_callbacks(reg, Some(0))
  /\ \A cat \in Cats : GetCb(reg, cat, Some(1)) = Some("cbA")
  /\ \A i \in 1 .. 5 : Singletons(reg)[i] = Some("cbA")

====
